---- MODULE Spec2Model ----
(***************************************************************************)
(* The authentication module of ouistiti (src/src/mod_auth.c): the engine  *)
(* built by mod_auth_create, the per-connection context, and the two       *)
(* connectors (_home_connector, _authn_connector) the server runs on each  *)
(* request of a connection.                                                *)
(*                                                                         *)
(* C strings are TLA+ strings; a null pointer is NULL (a string pointer)   *)
(* or NoInfo (an authsession_t pointer).  Return codes keep their C names. *)
(***************************************************************************)
EXTENDS Integers, Sequences, FiniteSets, TLC

NULL == "<null>"
NoInfo == [null |-> TRUE]

ESUCCESS == "ESUCCESS"
EREJECT == "EREJECT"
ECONTINUE == "ECONTINUE"

(* ---------------------------------------------------------------------- *)
(* string.h                                                                *)
(* ---------------------------------------------------------------------- *)

Min(a, b) == IF a < b THEN a ELSE b

\* strncmp(s, t, n): 0 when the first n characters (up to the terminator) agree
strncmp(s, t, n) ==
    IF SubSeq(s, 1, Min(n, Len(s))) = SubSeq(t, 1, Min(n, Len(t))) THEN 0 ELSE 1

\* strstr(s, t): the position in s of the first occurrence of t, 0 when none
strstr(s, t) ==
    LET hits == {i \in 1..(Len(s) + 1) :
                    i + Len(t) - 1 <= Len(s) /\ SubSeq(s, i, i + Len(t) - 1) = t}
    IN IF hits = {} THEN 0 ELSE CHOOSE i \in hits : \A j \in hits : i <= j

\* strchr(s, c) from position `from` on: position of the first c, 0 when none
strchr(s, from, c) ==
    LET hits == {i \in from..Len(s) : SubSeq(s, i, i) = c}
    IN IF hits = {} THEN 0 ELSE CHOOSE i \in hits : \A j \in hits : i <= j

\* the string that starts at position i of s (pointer arithmetic s + i - 1)
From(s, i) == SubSeq(s, i, Len(s))

\* strncpy(dst, src, n) into a zeroed field of n characters
strncpy(src, n) == SubSeq(src, 1, Min(Len(src), n))

(* ---------------------------------------------------------------------- *)
(* The build, the configuration and the backends                           *)
(* ---------------------------------------------------------------------- *)

AUTHZ_TOKEN_E == "AUTHZ_TOKEN_E"
AUTHZ_HEADER_E == "AUTHZ_HEADER_E"
AUTHZ_COOKIE_E == "AUTHZ_COOKIE_E"
AUTHZ_UNIX_E == "AUTHZ_UNIX_E"
AUTHZ_HOME_E == "AUTHZ_HOME_E"

str_authenticate == "WWW-Authenticate"
str_authorization == "Authorization"
str_xtoken == "X-Auth-Token"
str_xuser == "X-Remote-User"
str_xgroup == "X-Remote-Group"
str_xhome == "X-Remote-Home"
str_wilcard == "*"
str_location == "Location"
str_cachecontrol == "Cache-Control"
str_head == "HEAD"

\* str_authenticate_types[authn_type]
str_authenticate_types(authn_type) == authn_type

\* authn_rules[authn_type]: the schemes compiled in (AUTHN_NONE, AUTHN_BASIC);
\* the entry of a scheme that is not compiled in is NULL
authn_rules(authn_type) ==
    IF authn_type \in {"None", "Basic"} THEN authn_type ELSE NULL

\* authz_rules[authz_type & AUTHZ_TYPE_MASK]: entry 0 is NULL, the jwt entry
\* exists only in a build with AUTHZ_JWT
authz_rules(store, AUTHZ_JWT) ==
    IF store \in {"simple", "sqlite"} THEN store
    ELSE IF store = "jwt" /\ AUTHZ_JWT THEN store
    ELSE NULL

\* the optional operations of an identity store: only sqlite persists tokens
authz_join(rules) == rules = "sqlite"
authz_group(rules) == rules \in {"simple", "sqlite"}
authz_home(rules) == rules \in {"simple", "sqlite"}
authz_destroy(rules) == rules \in {"simple", "sqlite", "jwt"}

\* the accounts of the identity store: password, group and home of each user
Users == {"alice", "bob"}
Group(user) == IF user = "alice" THEN "users" ELSE NULL
Home(user) == IF user = "alice" THEN "/home/alice" ELSE ""

\* the tokens random() can lead to
Tokens == {"tokenA", "tokenB"}

\* the size of the fixed character fields of authsession_t (user, type, group,
\* home); every name of the model is shorter
FieldLen == 16

(* ---------------------------------------------------------------------- *)
(* State                                                                   *)
(* ---------------------------------------------------------------------- *)

VARIABLES
    build,      \* the build variant: [AUTHZ_JWT]
    config,     \* mod_auth_t: the configuration handed to mod_auth_create
    pc,         \* the loader: "load" before mod_auth_create, then "loaded" or "failed"
    mod,        \* _mod_auth_t returned by mod_auth_create, NoMod when NULL
    registered, \* httpserver_addmod has been called for the module
    authz,      \* the identity store: [ctx, joined]
    ctx,        \* _mod_auth_ctx_t of each connection, NoCtx when there is none
    session,    \* the "auth" session entry of each connection (httpmessage_SESSION)
    cur,        \* the request the server is running through the connectors
    proc,       \* the process: [euid, egid, crashed]
    gen,        \* the frame of authz_generatetoken: [pc, i, _nonce, token]
    authn,      \* mod->authn: [ctx], the context of the credential scheme
    rejected,   \* history: the connections on which a verification has failed
    switched,   \* history: the connections whose verification switched the process
                \* to the account of the user, every step succeeding
    private,    \* static_file_connector_t of a connection: [path_info, filepath, fd]
    fsreq,      \* the request the server is running through filestorage_connector
    fds         \* the descriptors the process holds open on files of the docroot

authvars == <<build, config, pc, mod, registered, authz, ctx, session, cur, proc, gen, authn,
              rejected, switched>>

vars == <<authvars, private, fsreq, fds>>

NoMod == [null |-> TRUE]
NoCtx == [null |-> TRUE]
NoCur == [stage |-> "idle"]
NoGen == [pc |-> "idle"]
NoRequest == [stage |-> "idle"]

\* the static_file_connector_t after calloc
NoFile == [path_info |-> NULL, filepath |-> NULL, fd |-> 0]

Flags == {AUTHZ_TOKEN_E, AUTHZ_HEADER_E, AUTHZ_COOKIE_E, AUTHZ_UNIX_E, AUTHZ_HOME_E}

\* every configuration the model draws from
AllConfigs ==
    [authn_type : {"None", "Basic", "Digest"},
     authz_store : {"none", "simple", "sqlite", "jwt"},
     authz_type : SUBSET Flags,
     redirect : {NULL, "/login", "http://host/login"},
     protect : {NULL, "", "*", "private/*"},
     unprotect : {NULL, "", "pub/*"},
     expire : {30}]

InitOver(Configs, Builds) ==
    /\ build \in [AUTHZ_JWT : Builds]
    /\ config \in Configs
    /\ pc = "load"
    /\ mod = NoMod
    /\ registered = FALSE
    /\ authz = [ctx |-> "none", joined |-> {}]
    /\ ctx = [c \in {1, 2} |-> NoCtx]
    /\ session = [c \in {1, 2} |-> NoInfo]
    /\ cur = NoCur
    /\ proc = [euid |-> "root", egid |-> "root", crashed |-> FALSE]
    /\ gen = NoGen
    /\ authn = [ctx |-> "none"]
    /\ rejected = {}
    /\ switched = {}
    /\ private = NoFile
    /\ fsreq = NoRequest
    /\ fds = {}

(* ---------------------------------------------------------------------- *)
(* mod_auth_create, called by ouistiti_loadmodule                          *)
(* ---------------------------------------------------------------------- *)

\* lines 222-236: the token generator installed, and the flags left in config
generatetoken_of(cfg, rules, AUTHZ_JWT) ==
    IF AUTHZ_JWT THEN "authz_generatejwtoken"
    ELSE IF AUTHZ_TOKEN_E \in cfg.authz_type /\ ~authz_join(rules) THEN NULL
    ELSE "authz_generatetoken"

authz_type_kept(cfg, rules, AUTHZ_JWT) == cfg.authz_type

authz_type_after(cfg, rules, AUTHZ_JWT) ==
    IF ~AUTHZ_JWT /\ AUTHZ_TOKEN_E \in cfg.authz_type /\ ~authz_join(rules)
    THEN cfg.authz_type \ {AUTHZ_TOKEN_E}
    ELSE cfg.authz_type

protect_default_kept(protect) == protect

\* lines 306-309
protect_default(protect) ==
    IF protect = NULL \/ protect = "" THEN str_wilcard ELSE protect

authn_created_if_rules(nrules, authn_ok) == nrules # NULL

\* line 289: mod->authn->ctx is set by the create of a scheme that exists
authn_created(nrules, authn_ok) == nrules # NULL /\ authn_ok

\* lines 285-288: the create of the scheme is called when the scheme exists
authn_create(nrules, authn_ok) ==
    [ctx |-> IF nrules = NULL THEN "none" ELSE IF authn_ok THEN "live" ELSE "failed"]

mod_auth_create ==
    /\ pc = "load"
    /\ LET rules == authz_rules(config.authz_store, build.AUTHZ_JWT)
           cfg1 == [config EXCEPT !.authz_type = authz_type_after(config, rules, build.AUTHZ_JWT)]
           nrules == authn_rules(config.authn_type)
       IN IF rules = NULL
          THEN /\ pc' = "failed"
               /\ UNCHANGED <<config, mod, registered, authz, authn>>
          ELSE \E store_ok \in BOOLEAN, authn_ok \in BOOLEAN :
               IF ~store_ok
               THEN /\ pc' = "failed"
                    /\ config' = cfg1
                    /\ authz' = [authz EXCEPT !.ctx = "failed"]
                    /\ UNCHANGED <<mod, registered, authn>>
               ELSE IF authn_created(nrules, authn_ok)
               THEN /\ pc' = "loaded"
                    /\ authn' = authn_create(nrules, authn_ok)
                    /\ mod' = [authz_type |-> config.authz_type,
                               authz_rules |-> rules,
                               generatetoken |-> generatetoken_of(config, rules, build.AUTHZ_JWT),
                               authn_rules |-> nrules,
                               type |-> str_authenticate_types(config.authn_type),
                               typelength |-> Len(str_authenticate_types(config.authn_type))]
                    /\ registered' = TRUE
                    /\ authz' = [authz EXCEPT !.ctx = "live"]
                    /\ config' = [cfg1 EXCEPT !.protect = protect_default(cfg1.protect)]
               ELSE /\ pc' = "failed"
                    /\ config' = cfg1
                    /\ authn' = authn_create(nrules, authn_ok)
                    /\ authz' = [authz EXCEPT !.ctx =
                                    IF nrules # NULL /\ authz_destroy(rules)
                                    THEN "destroyed" ELSE "live"]
                    /\ UNCHANGED <<mod, registered>>
    /\ UNCHANGED <<build, ctx, session, cur, proc>>

(* ---------------------------------------------------------------------- *)
(* The connection context                                                  *)
(* ---------------------------------------------------------------------- *)

connectors_auth_first(m) ==
    IF AUTHZ_HOME_E \in m.authz_type
    THEN <<"_authn_connector", "_home_connector">>
    ELSE <<"_authn_connector">>

\* lines 337-339: the connectors added to the connection, in the order of the
\* calls of httpclient_addconnector (all at CONNECTOR_AUTH)
connectors(m) ==
    IF AUTHZ_HOME_E \in m.authz_type
    THEN <<"_home_connector", "_authn_connector">>
    ELSE <<"_authn_connector">>

\* line 343: the schemes whose rules have a setup hook
authn_setup(rules) == rules = "None"

\* _mod_auth_getctx: the server accepts a connection and asks each registered
\* module for its context; setups counts the calls of the setup hook
_mod_auth_getctx(c) ==
    /\ registered /\ ~proc.crashed
    /\ cur = NoCur
    /\ ctx[c] = NoCtx
    /\ ctx' = [ctx EXCEPT ![c] =
                  [info |-> NoInfo,
                   connectors |-> connectors(mod),
                   setups |-> IF authn_setup(mod.authn_rules) THEN 1 ELSE 0]]
    /\ UNCHANGED <<build, authn, config, pc, mod, registered, authz, session, cur, proc>>

\* _mod_auth_freectx: the connection closes; the server drops its session with it
_mod_auth_freectx(c) ==
    /\ ~proc.crashed
    /\ cur = NoCur
    /\ ctx[c] # NoCtx
    /\ ctx' = [ctx EXCEPT ![c] = NoCtx]
    /\ session' = [session EXCEPT ![c] = NoInfo]
    /\ UNCHANGED <<build, authn, config, pc, mod, registered, authz, cur, proc>>

(* ---------------------------------------------------------------------- *)
(* Requests and responses (httpserver's http_message_t)                    *)
(* ---------------------------------------------------------------------- *)

\* the most optional header and cookie fields a request of the model carries
MaxHeaders == 2

OptionalFields == {"Authorization", "WWW_Authenticate", "X_Auth_Token",
                   "X_Requested_With", "Sec_WebSocket_Version",
                   "cookie_Authorization", "cookie_X_Auth_Token"}

NHeaders(r) == Cardinality({f \in OptionalFields : r[f] # NULL})

\* the requests built from the given values of each field, absent fields NULL
RequestsOver(v) ==
    {r \in [method : v.method,
            uri : v.uri,
            Authorization : v.Authorization \cup {NULL},
            WWW_Authenticate : v.WWW_Authenticate \cup {NULL},
            X_Auth_Token : v.X_Auth_Token \cup {NULL},
            X_Requested_With : v.X_Requested_With \cup {NULL},
            Sec_WebSocket_Version : v.Sec_WebSocket_Version \cup {NULL},
            cookie_Authorization : v.cookie_Authorization \cup {NULL},
            cookie_X_Auth_Token : v.cookie_X_Auth_Token \cup {NULL}] :
        NHeaders(r) <= MaxHeaders}

\* httpmessage_REQUEST(request, name)
httpmessage_REQUEST(request, name) ==
    CASE name = "uri" -> request.uri
      [] name = "method" -> request.method
      [] name = str_authorization -> request.Authorization
      [] name = str_authenticate -> request.WWW_Authenticate
      [] name = str_xtoken -> request.X_Auth_Token
      [] name = "X-Requested-With" -> request.X_Requested_With
      [] name = "Sec-WebSocket-Version" -> request.Sec_WebSocket_Version
      [] OTHER -> NULL

\* cookie_get(request, name)
cookie_get(request, name) ==
    CASE name = str_authorization -> request.cookie_Authorization
      [] name = str_xtoken -> request.cookie_X_Auth_Token
      [] OTHER -> NULL

\* utils_urldecode(uri): the paths of the model hold no escape
utils_urldecode(uri) == uri

EmptyResponse == [status |-> 0, headers |-> <<>>, cookies |-> <<>>, content |-> NULL]

httpmessage_addheader(response, name, value) ==
    [response EXCEPT !.headers = Append(@, <<name, value>>)]

cookie_set(response, name, value) ==
    [response EXCEPT !.cookies = Append(@, <<name, value>>)]

httpmessage_result(response, status) == [response EXCEPT !.status = status]

\* the _httpmessage_set passed to _authn_setauthorization
httpmessage_set(kind, response, name, value) ==
    IF kind = "header" THEN httpmessage_addheader(response, name, value)
    ELSE cookie_set(response, name, value)

RECURSIVE Match(_, _)
Match(s, p) ==
    IF p = "" THEN s = ""
    ELSE IF Head(p) = "*" THEN Match(s, Tail(p)) \/ (s # "" /\ Match(Tail(s), p))
    ELSE s # "" /\ Head(s) = Head(p) /\ Match(Tail(s), Tail(p))

\* utils_searchexp(haystack, needleslist): ESUCCESS when the path matches the
\* pattern ('*' stands for any characters), EREJECT otherwise and for no pattern
utils_searchexp(haystack, needleslist) ==
    IF needleslist = NULL \/ needleslist = "" THEN EREJECT
    ELSE IF Match(haystack, needleslist) THEN ESUCCESS
    ELSE EREJECT

(* ---------------------------------------------------------------------- *)
(* The backends' operations                                                *)
(* ---------------------------------------------------------------------- *)

\* rules->check(ctx, method, uri, authentication): the user the material
\* stands for (a password of the store, or a token joined to a user), or NULL
authn_check(joined, method, uri, authentication) ==
    IF authentication = "alice:secret" THEN "alice"
    ELSE IF authentication = "bob:hunter" THEN "bob"
    ELSE IF \E j \in joined : j[2] = authentication
    THEN (CHOOSE j \in joined : j[2] = authentication)[1]
    ELSE NULL

\* rules->challenge(ctx, request, response): Basic writes its own challenge,
\* None cannot and returns ECONTINUE
authn_challenge(rules, response) ==
    IF rules = "Basic"
    THEN [ret |-> ESUCCESS,
          response |-> httpmessage_result(
              httpmessage_addheader(response, str_authenticate, "Basic realm"), 401)]
    ELSE [ret |-> ECONTINUE, response |-> response]

\* authz_generatejwtoken: the token of a self-describing store holds the user
authz_generatejwtoken(user) == "jwt." \o user

(* ---------------------------------------------------------------------- *)
(* The pure parts of the connectors                                        *)
(* ---------------------------------------------------------------------- *)

\* the build defines AUTH_TOKEN (lines 439, 465, 521)
AUTH_TOKEN == TRUE

getauthorization_cookie_on_mismatch(m, request) ==
    LET a1 == httpmessage_REQUEST(request, str_authorization)
        c1 == cookie_get(request, str_authorization)
        a2 == IF a1 = NULL \/ a1 = "" \/ strncmp(a1, m.type, m.typelength) # 0
              THEN c1 ELSE a1
        a3 == IF a2 # NULL /\ strncmp(a2, m.type, m.typelength) # 0 THEN NULL ELSE a2
    IN IF AUTH_TOKEN /\ (a3 = NULL \/ a3 = "") /\ AUTHZ_TOKEN_E \in m.authz_type
       THEN IF AUTHZ_HEADER_E \in m.authz_type
            THEN httpmessage_REQUEST(request, str_xtoken)
            ELSE cookie_get(request, str_xtoken)
       ELSE a3

\* _authn_getauthorization(ctx, request)
_authn_getauthorization(m, request) ==
    LET a1 == httpmessage_REQUEST(request, str_authorization)
        a2 == IF a1 = NULL \/ a1 = "" THEN cookie_get(request, str_authorization) ELSE a1
        a3 == IF a2 # NULL /\ strncmp(a2, m.type, m.typelength) # 0 THEN NULL ELSE a2
    IN IF AUTH_TOKEN /\ (a3 = NULL \/ a3 = "") /\ AUTHZ_TOKEN_E \in m.authz_type
       THEN IF AUTHZ_HEADER_E \in m.authz_type
            THEN httpmessage_REQUEST(request, str_xtoken)
            ELSE cookie_get(request, str_xtoken)
       ELSE a3

setauthorization_without_token(authorization, info, kind, response) ==
    LET r1 == IF authorization # NULL
              THEN httpmessage_set(kind, response, str_authorization, authorization)
              ELSE response
        r2 == httpmessage_set(kind, r1, str_xuser, info.user)
        r3 == httpmessage_set(kind, r2, str_xgroup, info.group)
    IN httpmessage_set(kind, r3, str_xhome, "~/")

setauthorization_token_and_credential(authorization, info, kind, response) ==
    LET r0 == IF AUTH_TOKEN /\ info.token # NULL
              THEN httpmessage_set(kind, response, str_xtoken, info.token)
              ELSE response
        r1 == IF authorization # NULL
              THEN httpmessage_set(kind, r0, str_authorization, authorization)
              ELSE r0
        r2 == httpmessage_set(kind, r1, str_xuser, info.user)
        r3 == httpmessage_set(kind, r2, str_xgroup, info.group)
    IN httpmessage_set(kind, r3, str_xhome, "~/")

\* _authn_setauthorization(ctx, authorization, info, httpmessage_set, response):
\* info->group and info->home are arrays, so both tests of them are true
_authn_setauthorization(authorization, info, kind, response) ==
    LET r1 == IF AUTH_TOKEN /\ info.token # NULL
              THEN httpmessage_set(kind, response, str_xtoken, info.token)
              ELSE IF authorization # NULL
              THEN httpmessage_set(kind, response, str_authorization, authorization)
              ELSE response
        r2 == httpmessage_set(kind, r1, str_xuser, info.user)
        r3 == httpmessage_set(kind, r2, str_xgroup, info.group)
    IN httpmessage_set(kind, r3, str_xhome, "~/")

propagate_always(m, authorization, info, response) ==
    IF AUTHZ_COOKIE_E \in m.authz_type /\ AUTHZ_HEADER_E \notin m.authz_type
    THEN _authn_setauthorization(authorization, info, "cookie", response)
    ELSE _authn_setauthorization(authorization, info, "header", response)

\* lines 544-551 and 654-657: the transport the flags select, header first
propagate(m, authorization, info, response) ==
    IF AUTHZ_HEADER_E \in m.authz_type
    THEN _authn_setauthorization(authorization, info, "header", response)
    ELSE IF AUTHZ_COOKIE_E \in m.authz_type
    THEN _authn_setauthorization(authorization, info, "cookie", response)
    ELSE response

\* rules->join(ctx, user, token, expire) of a store that persists tokens
authz_joined(joined, user, token) ==
    {j \in joined : j[2] # token} \cup {<<user, token>>}

\* lines 553-571: the effective ids after the three steps, each of which may fail
privilege(p, user, nd) ==
    IF ~nd.pw THEN p
    ELSE LET p1 == IF nd.seteuid1 THEN [p EXCEPT !.euid = "root"] ELSE p
             p2 == IF nd.setegid THEN [p1 EXCEPT !.egid = user] ELSE p1
         IN IF nd.seteuid2 THEN [p2 EXCEPT !.euid = user] ELSE p2

\* the choices of one verification: the token random() leads to, whether join
\* succeeds, whether getpwnam finds the account, whether each set*id succeeds
Choices(m) ==
    [token : IF AUTHZ_TOKEN_E \in m.authz_type THEN Tokens ELSE {NULL},
     join_ok : IF AUTHZ_TOKEN_E \in m.authz_type /\ authz_join(m.authz_rules)
               THEN BOOLEAN ELSE {TRUE},
     pw : IF AUTHZ_UNIX_E \in m.authz_type THEN BOOLEAN ELSE {TRUE},
     seteuid1 : IF AUTHZ_UNIX_E \in m.authz_type THEN BOOLEAN ELSE {TRUE},
     setegid : IF AUTHZ_UNIX_E \in m.authz_type THEN BOOLEAN ELSE {TRUE},
     seteuid2 : IF AUTHZ_UNIX_E \in m.authz_type THEN BOOLEAN ELSE {TRUE}]

\* lines 516-542: the authsession_t built for a verified user
new_info(m, user, token) ==
    [user |-> strncpy(user, FieldLen),
     type |-> strncpy(m.type, FieldLen),
     token |-> token,
     group |-> IF authz_group(m.authz_rules) /\ Group(user) # NULL
               THEN strncpy(Group(user), FieldLen) ELSE "",
     home |-> IF authz_home(m.authz_rules) /\ Home(user) # NULL
              THEN strncpy(Home(user), FieldLen) ELSE ""]

check_method_unchanged(cfg, method) == method

\* the method handed to check (lines 507-508)
check_method(cfg, method) == IF cfg.redirect # NULL THEN str_head ELSE method

verification_failed_anonymous(st, checked) ==
    [st EXCEPT !.calls = checked, !.ret = ECONTINUE,
               !.info = [user |-> "anonymous", type |-> "", token |-> NULL,
                         group |-> "", home |-> ""]]

\* lines 509-510 and 575: check returned NULL, ret is still ECONTINUE
verification_failed(st, checked) == [st EXCEPT !.calls = checked, !.ret = ECONTINUE]

accepted_ret_unless_failed(unix, nd) ==
    IF unix /\ ~(nd.pw /\ nd.seteuid1 /\ nd.setegid /\ nd.seteuid2)
    THEN ECONTINUE ELSE EREJECT

\* line 573: the user is accepted whatever became of the privilege transition
accepted_ret(unix, nd) == EREJECT

\* _authn_checkauthorization(ctx, authorization, method, uri, response) on a
\* state st = [info, authz, proc, response, calls]
_authn_checkauthorization(m, cfg, st, authorization, method, uri, nd) ==
    LET sp == strchr(authorization, 1, " ")
        authentication == IF sp # 0 THEN From(authorization, sp + 1) ELSE authorization
        meth == check_method(cfg, method)
        user == authn_check(st.authz.joined, meth, uri, authentication)
        checked == Append(st.calls, <<"check", meth, uri, authentication, user>>)
        fresh == st.info = NoInfo
        tokened == fresh /\ AUTH_TOKEN /\ AUTHZ_TOKEN_E \in m.authz_type
        token == IF ~tokened THEN NULL
                 ELSE IF m.generatetoken = "authz_generatejwtoken"
                 THEN authz_generatejwtoken(strncpy(user, FieldLen))
                 ELSE nd.token
        joins == tokened /\ authz_join(m.authz_rules)
        info == IF fresh THEN new_info(m, user, token) ELSE st.info
        calls1 == IF tokened THEN Append(checked, <<"generatetoken", token>>) ELSE checked
        calls2 == IF joins
                  THEN Append(calls1, <<"join", info.user, token, cfg.expire, nd.join_ok>>)
                  ELSE calls1
        unix == AUTHZ_UNIX_E \in m.authz_type
        calls3 == IF ~unix THEN calls2
                  ELSE IF ~nd.pw THEN Append(calls2, <<"getpwnam", info.user, FALSE>>)
                  ELSE calls2 \o <<<<"getpwnam", info.user, TRUE>>,
                                   <<"seteuid", "root", nd.seteuid1>>,
                                   <<"setegid", info.user, nd.setegid>>,
                                   <<"seteuid", info.user, nd.seteuid2>>>>
    IN IF user = NULL
       THEN verification_failed(st, checked)
       ELSE IF tokened /\ m.generatetoken = NULL
       THEN [st EXCEPT !.calls = Append(checked, <<"generatetoken", NULL>>),
                       !.proc = [@ EXCEPT !.crashed = TRUE],
                       !.ret = NULL]
       ELSE [st EXCEPT
                !.info = info,
                !.authz = IF joins /\ nd.join_ok
                          THEN [@ EXCEPT !.joined = authz_joined(@, info.user, token)]
                          ELSE @,
                !.response = propagate(m, authorization, info, @),
                !.proc = IF unix THEN privilege(@, info.user, nd) ELSE @,
                !.calls = calls3,
                !.ret = accepted_ret(unix, nd)]

\* lines 600-609: the path of the redirect URL, without its leading '/';
\* NULL stands for the read through the null pointer strchr returned
redirect_path(url) ==
    LET p == strstr(url, "://")
        q == IF p # 0 THEN strchr(url, p + 3, "/") ELSE 1
    IN IF q = 0 THEN NULL
       ELSE IF SubSeq(url, q, q) = "/" THEN From(url, q + 1)
       ELSE From(url, q)

is_ajax_exact(X_Requested_With) == X_Requested_With = "XMLHttpRequest"

is_ajax_inverted(X_Requested_With) ==
    X_Requested_With = NULL \/ strstr(X_Requested_With, "XMLHttpRequest") = 0

\* line 590: the request comes from a script
is_ajax(X_Requested_With) ==
    X_Requested_With # NULL /\ strstr(X_Requested_With, "XMLHttpRequest") # 0

\* line 594
redirect_configured(cfg) == cfg.redirect # NULL

fallback_ret_kept(ret) == ret

\* line 633, which every path through the generic fallback reaches
fallback_ret(ret) == ESUCCESS

challenge_complete_never(ret) == FALSE

\* line 586: the generic fallback is for a backend that returned ECONTINUE
challenge_complete(ret) == ret # ECONTINUE

\* _authn_challenge(ctx, uri, request, response) on st
_authn_challenge(m, cfg, st, uri, request) ==
    LET b == authn_challenge(m.authn_rules, st.response)
        st1 == [st EXCEPT !.response = b.response,
                          !.calls = Append(@, <<"challenge", b.ret>>),
                          !.ret = b.ret]
        X_Requested_With == httpmessage_REQUEST(request, "X-Requested-With")
    IN IF challenge_complete(b.ret) THEN st1
       ELSE IF is_ajax(X_Requested_With)
       THEN [st1 EXCEPT !.response = httpmessage_result(@, 403),
                        !.ret = fallback_ret(ECONTINUE)]
       ELSE IF redirect_configured(cfg)
       THEN LET redirect == redirect_path(cfg.redirect)
            IN IF redirect = NULL
               THEN [st1 EXCEPT !.proc = [@ EXCEPT !.crashed = TRUE], !.ret = NULL]
               ELSE IF utils_searchexp(uri, redirect) = ESUCCESS
               THEN [st1 EXCEPT !.response = httpmessage_result(@, 200),
                                !.ret = fallback_ret(EREJECT)]
               ELSE [st1 EXCEPT
                        !.response = httpmessage_result(
                            httpmessage_addheader(
                                httpmessage_addheader(@, str_location, cfg.redirect),
                                str_cachecontrol, "no-cache"), 302),
                        !.ret = fallback_ret(ECONTINUE)]
       ELSE [st1 EXCEPT !.response = httpmessage_result(@, 401),
                        !.ret = fallback_ret(ECONTINUE)]

path_decision_inverted(cfg, uri, ret) ==
    IF utils_searchexp(uri, cfg.protect) # ESUCCESS THEN EREJECT
    ELSE IF utils_searchexp(uri, cfg.unprotect) # ESUCCESS THEN EREJECT
    ELSE ret

path_decision_protect_only(cfg, uri, ret) ==
    IF utils_searchexp(uri, cfg.protect) # ESUCCESS THEN EREJECT ELSE ret

\* lines 691-709: the return code after the protect and unprotect patterns
path_decision(cfg, uri, ret) ==
    IF utils_searchexp(uri, cfg.protect) # ESUCCESS THEN EREJECT
    ELSE IF utils_searchexp(uri, cfg.unprotect) = ESUCCESS THEN EREJECT
    ELSE ret

\* lines 668-672: a WWW-Authenticate request header disconnects the user
logout_ret(request) ==
    LET authorization == httpmessage_REQUEST(request, str_authenticate)
    IN IF authorization # NULL /\ authorization # "" THEN ESUCCESS ELSE ECONTINUE

already_bound_unless_logout(info, request) ==
    info # NoInfo /\ logout_ret(request) = ECONTINUE

\* lines 652-659: a connection that already holds an identity is not verified
already_bound(info, request) == info # NoInfo

\* _authn_connector(arg, request, response) on st; st.session is the session
\* entry of the connection
authn_connector(m, cfg, st, request, nd) ==
    IF already_bound(st.info, request)
    THEN [st EXCEPT !.response = propagate(m, NULL, st.info, @), !.ret = EREJECT]
    ELSE
    LET uriencoded == httpmessage_REQUEST(request, "uri")
        uri == utils_urldecode(uriencoded)
        ret1 == logout_ret(request)
        authorization == IF ret1 = ECONTINUE
                         THEN _authn_getauthorization(m, request)
                         ELSE httpmessage_REQUEST(request, str_authenticate)
        st1 == IF ret1 = ECONTINUE /\ authorization # NULL
               THEN _authn_checkauthorization(m, cfg, st, authorization,
                        httpmessage_REQUEST(request, "method"), uriencoded, nd)
               ELSE [st EXCEPT !.ret = ret1]
    IN IF st1.proc.crashed THEN st1
       ELSE IF st1.ret = EREJECT
       THEN [st1 EXCEPT !.session = st1.info]
       ELSE LET ret2 == path_decision(cfg, uri, st1.ret)
            IN IF ret2 # EREJECT
               THEN _authn_challenge(m, cfg, [st1 EXCEPT !.ret = ret2], uri, request)
               ELSE [st1 EXCEPT !.ret = ret2]

home_connector_websocket_too(info, request, response) ==
    LET uri == utils_urldecode(httpmessage_REQUEST(request, "uri"))
    IN IF info = NoInfo THEN [ret |-> EREJECT, response |-> response]
       ELSE LET home == info.home
                homelength == Len(home)
            IN IF homelength > 0 /\ strncmp(From(home, 2), uri, homelength - 1) # 0
               THEN [ret |-> ESUCCESS,
                     response |-> httpmessage_result(
                         httpmessage_addheader(response, str_location, home \o "/"), 301)]
               ELSE [ret |-> EREJECT, response |-> response]

\* _home_connector(arg, request, response): [ret, response]
home_connector(info, request, response) ==
    LET websocket == httpmessage_REQUEST(request, "Sec-WebSocket-Version")
        uri == utils_urldecode(httpmessage_REQUEST(request, "uri"))
    IN IF info = NoInfo THEN [ret |-> EREJECT, response |-> response]
       ELSE IF websocket # NULL /\ websocket # ""
       THEN [ret |-> EREJECT, response |-> response]
       ELSE LET home == info.home
                homelength == Len(home)
            IN IF homelength > 0 /\ strncmp(From(home, 2), uri, homelength - 1) # 0
               THEN [ret |-> ESUCCESS,
                     response |-> httpmessage_result(
                         httpmessage_addheader(response, str_location, home \o "/"), 301)]
               ELSE [ret |-> EREJECT, response |-> response]

(* ---------------------------------------------------------------------- *)
(* The server runs a request through the connectors of its connection      *)
(* ---------------------------------------------------------------------- *)

\* the connector the server calls next, "passed" when none is left
next_stage(rest) ==
    IF rest = <<>> THEN "passed"
    ELSE IF Head(rest) = "_home_connector" THEN "home"
    ELSE "auth"

\* the server has parsed a request of connection c: the connectors added by
\* _mod_auth_getctx are called in the order they were added
receive(c, request) ==
    /\ ~proc.crashed
    /\ cur = NoCur
    /\ ctx[c] # NoCtx
    /\ cur' = [stage |-> next_stage(ctx[c].connectors),
               rest |-> Tail(ctx[c].connectors),
               conn |-> c,
               request |-> request,
               response |-> EmptyResponse,
               ret |-> NULL,
               calls |-> <<>>,
               info0 |-> ctx[c].info]
    /\ UNCHANGED <<build, authn, config, pc, mod, registered, authz, ctx, session, proc>>

_home_connector(c) ==
    /\ cur.stage = "home" /\ cur.conn = c
    /\ LET r == home_connector(session[c], cur.request, cur.response)
       IN cur' = [cur EXCEPT !.stage = IF r.ret = ESUCCESS THEN "claimed"
                                       ELSE next_stage(cur.rest),
                             !.rest = IF r.ret = ESUCCESS \/ @ = <<>> THEN @ ELSE Tail(@),
                             !.response = r.response,
                             !.ret = r.ret,
                             !.calls = Append(@, <<"_home_connector", r.ret>>)]
    /\ UNCHANGED <<build, authn, config, pc, mod, registered, authz, ctx, session, proc>>

connector_state_fresh(c) ==
    [info |-> NoInfo, session |-> session[c], authz |-> authz,
     proc |-> proc, response |-> cur.response,
     calls |-> Append(cur.calls, <<"_authn_connector">>), ret |-> ECONTINUE]

connector_state_shared(c) ==
    [info |-> IF ctx[1] # NoCtx THEN ctx[1].info ELSE ctx[c].info,
     session |-> session[c], authz |-> authz,
     proc |-> proc, response |-> cur.response,
     calls |-> Append(cur.calls, <<"_authn_connector">>), ret |-> ECONTINUE]

\* lines 640-646: what the connector works on, the context being the one
\* _mod_auth_getctx made for the connection
connector_state(c) ==
    [info |-> ctx[c].info, session |-> session[c], authz |-> authz,
     proc |-> proc, response |-> cur.response,
     calls |-> Append(cur.calls, <<"_authn_connector">>), ret |-> ECONTINUE]

_authn_connector(c) ==
    /\ cur.stage = "auth" /\ cur.conn = c
    /\ \E nd \in Choices(mod) :
        \E r \in {authn_connector(mod, config, connector_state(c), cur.request, nd)} :
           /\ ctx' = [ctx EXCEPT ![c].info = r.info]
           /\ session' = [session EXCEPT ![c] = r.session]
           /\ authz' = r.authz
           /\ proc' = r.proc
           /\ cur' = [cur EXCEPT !.stage = IF r.proc.crashed THEN "crashed"
                                           ELSE IF r.ret = EREJECT THEN next_stage(cur.rest)
                                           ELSE "claimed",
                                 !.rest = IF r.proc.crashed \/ r.ret # EREJECT \/ @ = <<>>
                                          THEN @ ELSE Tail(@),
                                 !.response = r.response,
                                 !.ret = r.ret,
                                 !.calls = r.calls]
    /\ UNCHANGED <<build, authn, config, pc, mod, registered>>

\* the chain has ended (a connector claimed the request, or the connectors of
\* this module passed it on): the server finishes the exchange
respond ==
    /\ cur.stage \in {"claimed", "passed"}
    /\ cur' = NoCur
    /\ UNCHANGED <<build, authn, config, pc, mod, registered, authz, ctx, session, proc>>

(* ---------------------------------------------------------------------- *)
(* authz_generatetoken, the generic token issuer                           *)
(* ---------------------------------------------------------------------- *)

\* calloc(1, 36), char _nonce[24], the six words of the loop, sizeof(int)
sizeof_token == 36
sizeof_nonce == 24
nonce_words == 6
sizeof_int == 4

\* the values random() returns in the model: it returns 0 .. 2^31 - 1
RandomValues == {0, 305419896, 2147483647}

\* the bytes an int is stored as, lowest first
int_bytes(r) == [k \in 1..sizeof_int |-> (r \div (256 ^ (k - 1))) % 256]

\* base64_urlencoding: the URL-safe alphabet, each 3 bytes giving 4 characters,
\* a rest of 1 or 2 bytes giving 2 or 3 characters
base64url_alphabet ==
    "ABCDEFGHIJKLMNOPQRSTUVWXYZabcdefghijklmnopqrstuvwxyz0123456789-_"

base64url_char(n) == SubSeq(base64url_alphabet, n + 1, n + 1)

RECURSIVE base64url_encode(_)
base64url_encode(in) ==
    IF Len(in) = 0 THEN ""
    ELSE LET c1 == base64url_char(in[1] \div 4)
         IN IF Len(in) = 1 THEN c1 \o base64url_char((in[1] % 4) * 16)
            ELSE LET c2 == base64url_char((in[1] % 4) * 16 + in[2] \div 16)
                 IN IF Len(in) = 2
                    THEN c1 \o c2 \o base64url_char((in[2] % 16) * 4)
                    ELSE c1 \o c2
                         \o base64url_char((in[2] % 16) * 4 + in[3] \div 64)
                         \o base64url_char(in[3] % 64)
                         \o base64url_encode(SubSeq(in, 4, Len(in)))

token_of_short(_nonce) == base64url_encode(SubSeq(_nonce, 1, sizeof_nonce - sizeof_int))

\* line 407: encode(_nonce, 24, token, 36)
token_of(_nonce) == base64url_encode(SubSeq(_nonce, 1, sizeof_nonce))

\* lines 399-401
generatetoken_enter ==
    /\ gen = NoGen
    /\ gen' = [pc |-> "loop", i |-> 0, _nonce |-> <<>>, token |-> ""]
    /\ UNCHANGED <<build, authn, config, pc, mod, registered, authz, ctx, session, cur, proc,
                 rejected, switched, private, fsreq, fds>>

\* lines 402-405: one turn of the loop
generatetoken_random ==
    /\ gen.pc = "loop" /\ gen.i < nonce_words
    /\ \E r \in RandomValues :
           gen' = [gen EXCEPT !._nonce = @ \o int_bytes(r), !.i = @ + 1]
    /\ UNCHANGED <<build, authn, config, pc, mod, registered, authz, ctx, session, cur, proc,
                 rejected, switched, private, fsreq, fds>>

\* lines 406-407
generatetoken_encode ==
    /\ gen.pc = "loop" /\ ~(gen.i < nonce_words)
    /\ gen' = [gen EXCEPT !.token = token_of(gen._nonce), !.pc = "return"]
    /\ UNCHANGED <<build, authn, config, pc, mod, registered, authz, ctx, session, cur, proc,
                 rejected, switched, private, fsreq, fds>>

\* line 408: the caller takes the token
generatetoken_return ==
    /\ gen.pc = "return"
    /\ gen' = NoGen
    /\ UNCHANGED <<build, authn, config, pc, mod, registered, authz, ctx, session, cur, proc,
                 rejected, switched, private, fsreq, fds>>

(* ---------------------------------------------------------------------- *)
(* filestorage_connector (src/src/mod_filestorage.c)                       *)
(* ---------------------------------------------------------------------- *)

EINCOMPLETE == "EINCOMPLETE"

\* config->docroot of the static file module
docroot == "/srv/www"

\* the most invocations of one upload in which httpmessage_content hands over
\* data with more to come
MaxChunks == 2

\* the path_info the static file module sets for a request; the empty one is
\* the request of the docroot itself
FsNames == {"file.txt", "dir/", ".hidden", ""}

\* utils_buildpath(docroot, path_info, "", "", NULL)
utils_buildpath(root, path_info) == root \o "/" \o path_info

\* httpmessage_addcontent(response, type, content, -1)
httpmessage_addcontent(response, type, content) ==
    [response EXCEPT !.content = content,
                     !.headers = Append(@, <<"Content-Type", type>>)]

\* httpmessage_appendcontent(response, content, length)
httpmessage_appendcontent(response, content) ==
    [response EXCEPT !.content = @ \o content]

\* RESULT_403 when the build defines it, RESULT_400 otherwise
result_forbidden(RESULT_403) == IF RESULT_403 THEN 403 ELSE 400

\* path_info[length - 1] == '/' (line 89); with an empty path_info the read is
\* before the start of the string and ub is what it finds there
ends_with_slash(path_info, ub) ==
    IF path_info = "" THEN ub
    ELSE SubSeq(path_info, Len(path_info), Len(path_info)) = "/"

cleared_filepath_only(priv) == [priv EXCEPT !.filepath = NULL]

\* free(filepath), free(path_info) and both pointers set to NULL
cleared(priv) == [priv EXCEPT !.filepath = NULL, !.path_info = NULL]

checkname_any(priv, response, RESULT_403) ==
    [ret |-> EREJECT, private |-> priv, response |-> response]

\* filestorage_checkname(private, response): [ret, private, response]
filestorage_checkname(priv, response, RESULT_403) ==
    IF priv.path_info # "" /\ SubSeq(priv.path_info, 1, 1) = "."
    THEN [ret |-> ESUCCESS,
          private |-> cleared(priv),
          response |-> httpmessage_result(response, result_forbidden(RESULT_403))]
    ELSE [ret |-> EREJECT, private |-> priv, response |-> response]

\* line 152: the request handed over data and more is to come
more_content(inputlen, rest) == inputlen > 0 /\ rest > 0

\* the outcomes one invocation can meet: the descriptor open returns (-1 when
\* it fails), the results of mkdir and unlink, what httpmessage_content hands
\* over, and the character read before an empty path_info
FsChoices(priv, method, chunks) ==
    LET first == method = "PUT" /\ priv.fd = 0
        later == method = "PUT" /\ priv.fd > 0
    IN [open : IF first THEN {-1, 3} ELSE {-1},
        mkdir : IF first THEN {0, -1} ELSE {0},
        unlink : IF method = "DELETE" THEN {0, -1} ELSE {0},
        inputlen : IF later THEN {0, 1} ELSE {0},
        rest : IF later /\ chunks < MaxChunks THEN {0, 1} ELSE {0},
        ub : IF first /\ priv.path_info = "" THEN BOOLEAN ELSE {FALSE}]

\* filestorage_connector(arg, request, response) on
\* st = [private, response, fds, calls]: the state after it, with its ret
filestorage(st, method, RESULT_403, nd) ==
    LET priv == st.private
        chk == filestorage_checkname(priv, st.response, RESULT_403)
        hidden == [st EXCEPT !.private = chk.private, !.response = chk.response,
                             !.ret = ESUCCESS]
        filepath == utils_buildpath(docroot, priv.path_info)
        named == [priv EXCEPT !.filepath = filepath]
    IN IF priv.path_info = NULL THEN [st EXCEPT !.ret = EREJECT]
       ELSE IF method = "PUT"
       THEN IF chk.ret = ESUCCESS THEN hidden
            ELSE IF priv.fd = 0
            THEN IF ends_with_slash(priv.path_info, nd.ub)
                 THEN LET r1 == httpmessage_addcontent(st.response, "text/json",
                                    "{\"method\":\"PUT\",\"name\":\"")
                          r2 == httpmessage_appendcontent(r1, priv.path_info)
                          r3 == httpmessage_appendcontent(r2, "\",\"result\":\"")
                          r4 == IF nd.mkdir > 0
                                THEN httpmessage_result(
                                         httpmessage_appendcontent(r3, "KO\"}"),
                                         result_forbidden(RESULT_403))
                                ELSE httpmessage_appendcontent(r3, "OK\"}")
                      IN [st EXCEPT !.private = cleared(named),
                                    !.response = r4,
                                    !.calls = Append(@, <<"mkdir", filepath, nd.mkdir>>),
                                    !.ret = ESUCCESS]
                 ELSE LET opened == Append(st.calls, <<"open", filepath, nd.open>>)
                      IN IF nd.open > 0
                         THEN [st EXCEPT !.private = [named EXCEPT !.fd = nd.open],
                                         !.fds = @ \cup {nd.open},
                                         !.calls = opened,
                                         !.ret = EINCOMPLETE]
                         ELSE LET r1 == httpmessage_addcontent(st.response, "text/json",
                                            "{\"method\":\"PUT\",\"result\":\"KO\",\"name\":\"")
                                  r2 == httpmessage_appendcontent(r1, priv.path_info)
                                  r3 == httpmessage_appendcontent(r2, "\"}")
                              IN [st EXCEPT
                                     !.private = cleared([named EXCEPT !.fd = 0]),
                                     !.response = httpmessage_result(
                                                      r3, result_forbidden(RESULT_403)),
                                     !.calls = opened,
                                     !.ret = ESUCCESS]
            ELSE IF priv.fd > 0
            THEN IF more_content(nd.inputlen, nd.rest)
                 THEN [st EXCEPT !.calls = @ \o <<<<"httpmessage_content", nd.inputlen, nd.rest>>,
                                                  <<"write", priv.fd, nd.inputlen>>>>,
                                 !.ret = EINCOMPLETE]
                 ELSE LET r1 == httpmessage_addcontent(st.response, "text/json",
                                    "{\"method\":\"PUT\",\"result\":\"OK\",\"name\":\"")
                          r2 == httpmessage_appendcontent(r1, priv.path_info)
                          r3 == httpmessage_appendcontent(r2, "\"}")
                      IN [st EXCEPT !.private = cleared([priv EXCEPT !.fd = 0]),
                                    !.response = r3,
                                    !.fds = @ \ {priv.fd},
                                    !.calls = @ \o <<<<"httpmessage_content", nd.inputlen, nd.rest>>,
                                                     <<"close", priv.fd, priv.fd \in st.fds>>>>,
                                    !.ret = ESUCCESS]
            ELSE [st EXCEPT !.ret = EREJECT]
       ELSE IF method = "POST" /\ priv.fd = 0
       THEN IF chk.ret = ESUCCESS THEN hidden
            ELSE LET r1 == httpmessage_addcontent(st.response, "text/json",
                               "{\"method\":\"POST\",\"result\":\"OK\",\"name\":\"")
                     r2 == httpmessage_appendcontent(r1, priv.path_info)
                     r3 == httpmessage_appendcontent(r2, "\"}")
                 IN [st EXCEPT !.private = cleared([named EXCEPT !.fd = 0]),
                               !.response = r3,
                               !.ret = ESUCCESS]
       ELSE IF method = "DELETE" /\ priv.fd = 0
       THEN IF chk.ret = ESUCCESS THEN hidden
            ELSE LET r1 == httpmessage_addcontent(st.response, "text/json",
                               "{\"method\":\"DELETE\",\"name\":\"")
                     r2 == httpmessage_appendcontent(r1, priv.path_info)
                     r3 == httpmessage_appendcontent(r2, "\",\"result\":\"")
                     r4 == IF nd.unlink > 0
                           THEN httpmessage_result(
                                    httpmessage_appendcontent(r3, "KO\"}"),
                                    result_forbidden(RESULT_403))
                           ELSE httpmessage_appendcontent(r3, "OK\"}")
                 IN [st EXCEPT !.private = cleared([named EXCEPT !.fd = 0]),
                               !.response = r4,
                               !.calls = Append(@, <<"unlink", filepath, nd.unlink>>),
                               !.ret = ESUCCESS]
       ELSE [st EXCEPT !.ret = EREJECT]

\* the static file module has taken the path of a new request: it sets
\* private->path_info, and the server goes on to filestorage_connector
static_file_connector(method, name) ==
    /\ fsreq = NoRequest
    /\ private' = [private EXCEPT !.path_info = name]
    /\ fsreq' = [stage |-> "running", method |-> method, name |-> name,
                 response |-> EmptyResponse, rets |-> <<>>, calls |-> <<>>,
                 chunks |-> 0]
    /\ UNCHANGED <<authvars, fds>>

\* one invocation of filestorage_connector: the server calls it again while it
\* returns EINCOMPLETE; the invocations the server makes after another return
\* code are those of a connector called once more for the same request
filestorage_connector ==
    /\ fsreq # NoRequest
    /\ fsreq.stage = "running" \/ Len(fsreq.rets) < MaxChunks + 3
    /\ \E nd \in FsChoices(private, fsreq.method, fsreq.chunks) :
        LET st == [private |-> private, response |-> fsreq.response, fds |-> fds,
                   calls |-> fsreq.calls, ret |-> EREJECT]
            r == filestorage(st, fsreq.method, build.RESULT_403, nd)
        IN /\ private' = r.private
           /\ fds' = r.fds
           /\ fsreq' = [fsreq EXCEPT
                           !.stage = IF r.ret = EINCOMPLETE THEN "running" ELSE "done",
                           !.response = r.response,
                           !.rets = Append(@, r.ret),
                           !.calls = r.calls,
                           !.chunks = IF r.ret = EINCOMPLETE /\ private.fd > 0
                                      THEN @ + 1 ELSE @]
    /\ UNCHANGED authvars

\* the server has sent the response, or another connector has served the
\* request: the exchange ends
filestorage_end ==
    /\ fsreq # NoRequest /\ fsreq.stage = "done"
    /\ fsreq' = NoRequest
    /\ UNCHANGED <<authvars, private, fds>>

(* ---------------------------------------------------------------------- *)
(* Specifications                                                          *)
(* ---------------------------------------------------------------------- *)

Conns == {1}

Step(C, R) ==
    \/ mod_auth_create
    \/ \E c \in C : _mod_auth_getctx(c)
    \/ \E c \in C : _mod_auth_freectx(c)
    \/ \E c \in C, request \in R : receive(c, request)
    \/ \E c \in C : _home_connector(c)
    \/ \E c \in C : _authn_connector(c)
    \/ respond

NextOver(C, R) == Step(C, R) /\ UNCHANGED <<gen, rejected, switched, private, fsreq, fds>>

\* the step just taken was a verification on connection c that failed
JustRejected(c) ==
    /\ cur.stage = "auth" /\ cur.conn = c /\ cur'.stage # "auth"
    /\ \E i \in DOMAIN cur'.calls : cur'.calls[i][1] = "check" /\ cur'.calls[i][5] = NULL

\* the step just taken was a verification on connection c in which getpwnam
\* found the account and the three set*id calls succeeded
JustSwitched(c) ==
    /\ cur.stage = "auth" /\ cur.conn = c /\ cur'.stage # "auth"
    /\ \E i \in DOMAIN cur'.calls : cur'.calls[i][1] = "getpwnam"
    /\ \A i \in DOMAIN cur'.calls :
           cur'.calls[i][1] \in {"getpwnam", "seteuid", "setegid"} => cur'.calls[i][3]

\* the steps of Step with the history of failed verifications and of privilege
\* transitions kept
NextWithHistory(C, R) ==
    /\ Step(C, R)
    /\ rejected' = {c \in C : ctx'[c] # NoCtx /\ (c \in rejected \/ JustRejected(c))}
    /\ switched' = {c \in C : ctx'[c] # NoCtx /\ (c \in switched \/ JustSwitched(c))}
    /\ UNCHANGED <<gen, private, fsreq, fds>>

\* Spec: one connection, every scheme and store, the transport, token and home
\* flags, every path protected; requests vary in their credentials
Configs ==
    {cfg \in AllConfigs :
        /\ cfg.authz_store \in {"none", "simple", "sqlite"}
        /\ AUTHZ_UNIX_E \notin cfg.authz_type
        /\ cfg.redirect \in {NULL, "/login"}
        /\ cfg.protect = NULL
        /\ cfg.unprotect = NULL}

Requests ==
    RequestsOver([method |-> {"GET"},
                  uri |-> {"private/doc", "home/alice/x"},
                  Authorization |-> {"Basic alice:secret", "Basic bob:hunter",
                                     "Basic alice:wrong", "None alice:secret"},
                  WWW_Authenticate |-> {"", "logout"},
                  X_Auth_Token |-> {"tokenA"},
                  X_Requested_With |-> {},
                  Sec_WebSocket_Version |-> {},
                  cookie_Authorization |-> {"Basic alice:secret"},
                  cookie_X_Auth_Token |-> {"tokenA"}])

Init == InitOver(Configs, {FALSE})
Next == NextOver(Conns, Requests)
Spec == Init /\ [][Next]_vars

\* SpecChallenge: one connection, both schemes, every redirect URL and pattern;
\* requests vary in their path and in the headers the challenge reads.
\* A redirect URL names a login page: it has a path.
ChallengeConfigs ==
    {cfg \in AllConfigs :
        /\ cfg.authn_type \in {"None", "Basic"}
        /\ cfg.authz_store = "simple"
        /\ cfg.authz_type \in {{}, {AUTHZ_HEADER_E}, {AUTHZ_HOME_E}}}

ChallengeRequests ==
    RequestsOver([method |-> {"GET"},
                  uri |-> {"login", "private/doc", "pub/info", "other"},
                  Authorization |-> {"Basic alice:secret", "Basic alice:wrong",
                                     "None alice:secret", "None alice:wrong"},
                  WWW_Authenticate |-> {"", "logout"},
                  X_Auth_Token |-> {},
                  X_Requested_With |-> {"XMLHttpRequest", "an XMLHttpRequest", "fetch"},
                  Sec_WebSocket_Version |-> {},
                  cookie_Authorization |-> {},
                  cookie_X_Auth_Token |-> {}])

InitChallenge == InitOver(ChallengeConfigs, {FALSE})
NextChallenge == NextOver(Conns, ChallengeRequests)
SpecChallenge == InitChallenge /\ [][NextChallenge]_vars

\* SpecExtract: one connection, the token and transport flags, with and without
\* a redirect URL; requests vary in their method and in where they carry
\* credential material, and in the scheme that material names
ExtractConfigs ==
    {cfg \in AllConfigs :
        /\ cfg.authn_type = "Basic"
        /\ cfg.authz_store \in {"simple", "sqlite"}
        /\ cfg.authz_type \subseteq {AUTHZ_TOKEN_E, AUTHZ_HEADER_E, AUTHZ_COOKIE_E}
        /\ cfg.redirect \in {NULL, "/login"}
        /\ cfg.protect = NULL
        /\ cfg.unprotect = NULL}

ExtractRequests ==
    RequestsOver([method |-> {"GET", "POST"},
                  uri |-> {"private/doc"},
                  Authorization |-> {"Basic alice:secret", "Basic alice:wrong",
                                     "None alice:secret", ""},
                  WWW_Authenticate |-> {},
                  X_Auth_Token |-> {"tokenA", "bob:hunter"},
                  X_Requested_With |-> {},
                  Sec_WebSocket_Version |-> {},
                  cookie_Authorization |-> {"Basic bob:hunter", "None bob:hunter"},
                  cookie_X_Auth_Token |-> {"tokenB"}])

InitExtract == InitOver(ExtractConfigs, {FALSE})
NextExtract == NextOver(Conns, ExtractRequests)
SpecExtract == InitExtract /\ [][NextExtract]_vars

\* SpecHome: one connection, with and without the home connector; requests
\* vary in their path, in the user they name and in the WebSocket header
HomeConfigs ==
    {cfg \in AllConfigs :
        /\ cfg.authn_type = "Basic"
        /\ cfg.authz_store \in {"simple", "jwt"}
        /\ cfg.authz_type \in {{}, {AUTHZ_HOME_E}, {AUTHZ_HOME_E, AUTHZ_HEADER_E}}
        /\ cfg.redirect = NULL
        /\ cfg.protect \in {NULL, "private/*"}
        /\ cfg.unprotect = NULL}

HomeRequests ==
    RequestsOver([method |-> {"GET"},
                  uri |-> {"other", "home/alice/anything", "home/alice",
                           "home/alice2", "home/ali", "private/doc"},
                  Authorization |-> {"Basic alice:secret", "Basic bob:hunter",
                                     "Basic alice:wrong"},
                  WWW_Authenticate |-> {},
                  X_Auth_Token |-> {},
                  X_Requested_With |-> {},
                  Sec_WebSocket_Version |-> {"13", ""},
                  cookie_Authorization |-> {},
                  cookie_X_Auth_Token |-> {}])

InitHome == InitOver(HomeConfigs, {FALSE, TRUE})
NextHome == NextOver(Conns, HomeRequests)
SpecHome == InitHome /\ [][NextHome]_vars

\* SpecCreate: every scheme and store, in both builds, with the token and home
\* flags; construction may fail at each backend's create
CreateConfigs ==
    {cfg \in AllConfigs :
        /\ cfg.authz_type \in {{}, {AUTHZ_TOKEN_E}, {AUTHZ_TOKEN_E, AUTHZ_HEADER_E},
                               {AUTHZ_HOME_E}}
        /\ cfg.redirect = NULL
        /\ cfg.protect \in {NULL, "private/*"}
        /\ cfg.unprotect = NULL}

CreateRequests ==
    RequestsOver([method |-> {"GET"},
                  uri |-> {"private/doc"},
                  Authorization |-> {"Basic alice:secret", "Basic alice:wrong"},
                  WWW_Authenticate |-> {},
                  X_Auth_Token |-> {"tokenA"},
                  X_Requested_With |-> {},
                  Sec_WebSocket_Version |-> {},
                  cookie_Authorization |-> {},
                  cookie_X_Auth_Token |-> {}])

InitCreate == InitOver(CreateConfigs, {FALSE, TRUE})
NextCreate == NextOver(Conns, CreateRequests)
SpecCreate == InitCreate /\ [][NextCreate]_vars

\* SpecUnix: one connection, with and without AUTHZ_UNIX_E; the account lookup
\* and each step of the privilege transition may fail
UnixConfigs ==
    {cfg \in AllConfigs :
        /\ cfg.authn_type = "Basic"
        /\ cfg.authz_store = "simple"
        /\ cfg.authz_type \in {{}, {AUTHZ_HEADER_E}, {AUTHZ_UNIX_E},
                               {AUTHZ_UNIX_E, AUTHZ_HEADER_E},
                               {AUTHZ_UNIX_E, AUTHZ_COOKIE_E},
                               {AUTHZ_UNIX_E, AUTHZ_HOME_E}}
        /\ cfg.redirect \in {NULL, "/login"}
        /\ cfg.protect = NULL
        /\ cfg.unprotect = NULL}

UnixRequests ==
    RequestsOver([method |-> {"GET"},
                  uri |-> {"private/doc", "home/alice/x"},
                  Authorization |-> {"Basic alice:secret", "Basic bob:hunter",
                                     "Basic alice:wrong"},
                  WWW_Authenticate |-> {},
                  X_Auth_Token |-> {},
                  X_Requested_With |-> {},
                  Sec_WebSocket_Version |-> {},
                  cookie_Authorization |-> {"Basic bob:hunter"},
                  cookie_X_Auth_Token |-> {}])

InitUnix == InitOver(UnixConfigs, {FALSE})
NextUnix == NextOver(Conns, UnixRequests)
SpecUnix == InitUnix /\ [][NextUnix]_vars

\* SpecFrame: one connection, a store with join, the token, transport, home and
\* privilege flags; requests carry accepted and rejected material; the
\* connections on which a verification has failed are remembered
FrameConfigs ==
    {cfg \in AllConfigs :
        /\ cfg.authn_type = "Basic"
        /\ cfg.authz_store = "sqlite"
        /\ cfg.authz_type \in {{}, {AUTHZ_TOKEN_E, AUTHZ_HEADER_E},
                               {AUTHZ_TOKEN_E, AUTHZ_COOKIE_E},
                               {AUTHZ_UNIX_E, AUTHZ_HEADER_E},
                               {AUTHZ_TOKEN_E, AUTHZ_UNIX_E, AUTHZ_HEADER_E},
                               {AUTHZ_HOME_E, AUTHZ_HEADER_E}}
        /\ cfg.redirect \in {NULL, "/login"}
        /\ cfg.protect = NULL
        /\ cfg.unprotect = NULL}

FrameRequests ==
    RequestsOver([method |-> {"GET"},
                  uri |-> {"private/doc"},
                  Authorization |-> {"Basic alice:secret", "Basic alice:wrong"},
                  WWW_Authenticate |-> {},
                  X_Auth_Token |-> {"tokenA", "forged"},
                  X_Requested_With |-> {},
                  Sec_WebSocket_Version |-> {},
                  cookie_Authorization |-> {"Basic bob:wrong"},
                  cookie_X_Auth_Token |-> {"forged"}])

InitFrame == InitOver(FrameConfigs, {FALSE})
NextFrame == NextWithHistory(Conns, FrameRequests)
SpecFrame == InitFrame /\ [][NextFrame]_vars

\* SpecProtect: every engine is built without a protect pattern (absent or
\* empty); the unprotect pattern and the redirect URL vary, and the requests
\* are those of SpecChallenge
ProtectConfigs ==
    {cfg \in AllConfigs :
        /\ cfg.authn_type \in {"None", "Basic"}
        /\ cfg.authz_store = "simple"
        /\ cfg.authz_type \in {{}, {AUTHZ_HEADER_E}, {AUTHZ_HOME_E}}
        /\ cfg.redirect \in {NULL, "/login"}
        /\ cfg.protect \in {NULL, ""}}

SpecProtect == InitOver(ProtectConfigs, {FALSE}) /\ [][NextOver(Conns, ChallengeRequests)]_vars

\* SpecTwo: two connections of one engine, their requests interleaved; the
\* token, transport, privilege and home flags
TwoConns == {1, 2}

TwoConfigs ==
    {cfg \in AllConfigs :
        /\ cfg.authn_type = "Basic"
        /\ cfg.authz_store = "sqlite"
        /\ cfg.authz_type \in {{AUTHZ_HEADER_E}, {AUTHZ_TOKEN_E, AUTHZ_HEADER_E},
                               {AUTHZ_TOKEN_E, AUTHZ_COOKIE_E},
                               {AUTHZ_UNIX_E, AUTHZ_HEADER_E},
                               {AUTHZ_HOME_E, AUTHZ_HEADER_E}}
        /\ cfg.redirect = NULL
        /\ cfg.protect = NULL
        /\ cfg.unprotect = NULL}

TwoRequests ==
    RequestsOver([method |-> {"GET"},
                  uri |-> {"private/doc"},
                  Authorization |-> {"Basic alice:secret", "Basic bob:hunter",
                                     "Basic alice:wrong"},
                  WWW_Authenticate |-> {},
                  X_Auth_Token |-> {"tokenA"},
                  X_Requested_With |-> {},
                  Sec_WebSocket_Version |-> {},
                  cookie_Authorization |-> {},
                  cookie_X_Auth_Token |-> {"tokenA"}])

SpecTwo == InitOver(TwoConfigs, {FALSE}) /\ [][NextWithHistory(TwoConns, TwoRequests)]_vars

\* SpecToken: the token issuer alone, over the values random() returns
TokenConfigs ==
    {cfg \in AllConfigs :
        /\ cfg.authn_type = "Basic" /\ cfg.authz_store = "sqlite"
        /\ cfg.authz_type = {AUTHZ_TOKEN_E, AUTHZ_HEADER_E}
        /\ cfg.redirect = NULL /\ cfg.protect = NULL /\ cfg.unprotect = NULL}

InitToken == InitOver(TokenConfigs, {FALSE})
NextToken ==
    \/ generatetoken_enter
    \/ generatetoken_random
    \/ generatetoken_encode
    \/ generatetoken_return
SpecToken == InitToken /\ [][NextToken]_vars

\* SpecStorage: the file storage connector of one connection, in a build with
\* and without RESULT_403; requests vary in their method and name, and the
\* file system and the arrival of the content in what they answer
InitStorage ==
    /\ build \in [AUTHZ_JWT : {FALSE}, RESULT_403 : BOOLEAN]
    /\ config \in TokenConfigs
    /\ pc = "load"
    /\ mod = NoMod
    /\ registered = FALSE
    /\ authz = [ctx |-> "none", joined |-> {}]
    /\ ctx = [c \in {1, 2} |-> NoCtx]
    /\ session = [c \in {1, 2} |-> NoInfo]
    /\ cur = NoCur
    /\ proc = [euid |-> "root", egid |-> "root", crashed |-> FALSE]
    /\ gen = NoGen
    /\ authn = [ctx |-> "none"]
    /\ rejected = {}
    /\ switched = {}
    /\ private = NoFile
    /\ fsreq = NoRequest
    /\ fds = {}

NextStorage ==
    \/ \E method \in {"GET", "PUT", "POST", "DELETE"}, name \in FsNames :
           static_file_connector(method, name)
    \/ filestorage_connector
    \/ filestorage_end

SpecStorage == InitStorage /\ [][NextStorage]_vars

(* ---------------------------------------------------------------------- *)
(* Properties                                                              *)
(* ---------------------------------------------------------------------- *)

Called(name) == \E i \in DOMAIN cur.calls : cur.calls[i][1] = name

\* the auth connector has run on the current request
AuthRan == cur.stage \in {"claimed", "passed", "crashed"} /\ Called("_authn_connector")

\* check accepted the material of the current request as user u
Accepted(u) ==
    \E i \in DOMAIN cur.calls : cur.calls[i][1] = "check" /\ cur.calls[i][5] = u

\* the backend's challenge was called on the current request and returned ret
Challenged(ret) ==
    \E i \in DOMAIN cur.calls : cur.calls[i] = <<"challenge", ret>>

HasHeader(response, name, value) ==
    \E i \in DOMAIN response.headers : response.headers[i] = <<name, value>>

HasHeaderNamed(response, name) ==
    \E i \in DOMAIN response.headers : response.headers[i][1] = name

HasCookie(response, name, value) ==
    \E i \in DOMAIN response.cookies : response.cookies[i] = <<name, value>>

\* the current request ended without an identity on its connection
NoIdentity == AuthRan /\ cur.info0 = NoInfo /\ ctx[cur.conn].info = NoInfo

\* the request carries the AJAX marker
AjaxMarked == cur.request.X_Requested_With \in {"XMLHttpRequest", "an XMLHttpRequest"}

\* the path of the request is the path of the configured redirect URL
LoginPage ==
    config.redirect \in {"/login", "http://host/login"} /\ cur.request.uri = "login"

\* the path of the request matches protect and does not match unprotect
ProtectedPath ==
    /\ \/ config.protect = "*"
       \/ config.protect = "private/*" /\ cur.request.uri = "private/doc"
    /\ ~(config.unprotect = "pub/*" /\ cur.request.uri = "pub/info")

LogoutSignal == cur.request.WWW_Authenticate \notin {NULL, ""}

\* C1: on a connection that holds an identity, the auth connector never calls
\* the backend's check: it re-emits the cached identity through the configured
\* transport and returns EREJECT, and the identity stays the cached one.
C1_SessionCaching ==
    (AuthRan /\ cur.info0 # NoInfo) =>
        /\ ~Called("check")
        /\ cur.ret = EREJECT /\ cur.stage = "passed"
        /\ ctx[cur.conn].info = cur.info0
        /\ AUTHZ_HEADER_E \in mod.authz_type =>
               HasHeader(cur.response, str_xuser, cur.info0.user)
        /\ (AUTHZ_HEADER_E \notin mod.authz_type /\ AUTHZ_COOKIE_E \in mod.authz_type) =>
               HasCookie(cur.response, str_xuser, cur.info0.user)

C1_Witness ==
    /\ AuthRan /\ cur.info0 # NoInfo
    /\ cur.info0.user = "alice"
    /\ cur.request.Authorization = "Basic bob:hunter"
    /\ HasHeader(cur.response, str_xuser, "alice")

\* C2: the identity of a connection is set once, by a request whose material
\* check accepted, and then never changes, whatever later requests carry,
\* until the context of the connection is freed.
C2_IdentityImmutable ==
    [][\A c \in Conns :
        /\ (ctx[c] # NoCtx /\ ctx[c].info # NoInfo) =>
               (ctx'[c] = NoCtx \/ ctx'[c].info = ctx[c].info)
        /\ (ctx[c] # NoCtx /\ ctx[c].info = NoInfo
                /\ ctx'[c] # NoCtx /\ ctx'[c].info # NoInfo) =>
               (cur'.conn = c /\ \E i \in DOMAIN cur'.calls :
                    /\ cur'.calls[i][1] = "check"
                    /\ cur'.calls[i][5] # NULL
                    /\ ctx'[c].info.user = cur'.calls[i][5])]_vars

C2_Witness ==
    /\ AuthRan /\ cur.info0 # NoInfo
    /\ cur.info0.user = "alice" /\ cur.info0.token = "tokenB"
    /\ cur.request.X_Auth_Token = "tokenA"
    /\ cur.request.WWW_Authenticate = "logout"
    /\ ctx[cur.conn].info = cur.info0

\* C3: a request with a non-empty WWW-Authenticate header is not answered from
\* the cached identity, even on a connection that holds one: it is verified
\* again or challenged.
C3_LogoutForcesReverification ==
    (AuthRan /\ cur.info0 # NoInfo /\ LogoutSignal) =>
        (Called("check") \/ Called("challenge"))

C5_PathDecision ==
    (NoIdentity /\ ~ProtectedPath) =>
        /\ cur.stage = "passed" /\ cur.ret = EREJECT
        /\ ~Called("challenge")
        /\ cur.response = EmptyResponse

C5_Witness ==
    /\ NoIdentity /\ config.protect = "*" /\ config.unprotect = "pub/*"
    /\ cur.request.uri = "pub/info"
    /\ LogoutSignal
    /\ cur.request.Authorization = "Basic alice:secret"
    /\ cur.stage = "passed"

\* C6: with a redirect URL configured, the backend's challenge returning
\* ECONTINUE and a request that is not AJAX-marked and whose path is the path of
\* the redirect URL, the status is 200 and the connector returns EREJECT.
C6_LoginPagePassThrough ==
    (NoIdentity /\ Challenged(ECONTINUE) /\ ~AjaxMarked /\ LoginPage) =>
        /\ cur.response.status = 200
        /\ cur.ret = EREJECT /\ cur.stage = "passed"

C8_AjaxForbidden ==
    (NoIdentity /\ Challenged(ECONTINUE) /\ AjaxMarked) =>
        /\ cur.response.status = 403
        /\ ~HasHeaderNamed(cur.response, str_location)
        /\ cur.response.headers = <<>>
        /\ cur.response.content = NULL
        /\ cur.ret = ESUCCESS

C8_Witness ==
    /\ NoIdentity /\ Challenged(ECONTINUE) /\ LoginPage
    /\ cur.request.X_Requested_With = "an XMLHttpRequest"
    /\ cur.response.status = 403

\* C9: with no redirect URL configured, the backend's challenge returning
\* ECONTINUE and a request that is not AJAX-marked, the status is 401, no
\* Location header is added and the connector returns ESUCCESS.
C9_Unauthorized ==
    (NoIdentity /\ Challenged(ECONTINUE) /\ config.redirect = NULL /\ ~AjaxMarked) =>
        /\ cur.response.status = 401
        /\ ~HasHeaderNamed(cur.response, str_location)
        /\ cur.ret = ESUCCESS /\ cur.stage = "claimed"

C9_Witness ==
    /\ NoIdentity /\ Challenged(ECONTINUE) /\ config.redirect = NULL
    /\ cur.request.Authorization = "None alice:wrong"
    /\ cur.request.uri = "login"
    /\ cur.response.status = 401

\* C11: with a redirect URL configured every call of the backend's check gets
\* the method HEAD, whatever the method of the request; with none configured
\* check gets the method of the request.
C11_HeadSubstitution ==
    AuthRan =>
        \A i \in DOMAIN cur.calls :
            cur.calls[i][1] = "check" =>
                cur.calls[i][2] = IF config.redirect # NULL THEN "HEAD"
                                  ELSE cur.request.method

C11_Witness ==
    /\ AuthRan /\ config.redirect = "/login"
    /\ cur.request.method = "POST"
    /\ \E i \in DOMAIN cur.calls :
           cur.calls[i][1] = "check" /\ cur.calls[i][2] = "HEAD"

\* the requests of SpecExtract whose material names the configured scheme
OfScheme(material) ==
    material \in {"Basic alice:secret", "Basic alice:wrong", "Basic bob:hunter"}

\* what follows the first space of the material
AfterSpace(material) ==
    CASE material = "Basic alice:secret" -> "alice:secret"
      [] material = "Basic alice:wrong" -> "alice:wrong"
      [] material = "Basic bob:hunter" -> "bob:hunter"
      [] material = "None alice:secret" -> "alice:secret"
      [] material = "None bob:hunter" -> "bob:hunter"
      [] OTHER -> material

\* the authentication strings check was called with on the current request
Checked == {cur.calls[i][4] : i \in {j \in DOMAIN cur.calls : cur.calls[j][1] = "check"}}

\* the request came in on a connection that held no identity and it carries
\* no logout signal
Unbound == AuthRan /\ cur.info0 = NoInfo /\ ~LogoutSignal

\* C12 as stated: when the Authorization header names another scheme and the
\* Authorization cookie names the configured one, check gets the material of
\* the cookie.
C12_CookieAfterMismatch ==
    (Unbound /\ cur.request.Authorization = "None alice:secret"
        /\ cur.request.cookie_Authorization = "Basic bob:hunter") =>
        Checked = {"bob:hunter"}

\* C12 amended: the Authorization header is read first and the Authorization
\* cookie only when the header is absent or empty; the material selected is
\* dropped when its scheme is not the configured one, and only then, or when
\* none was found, the token source is read if token transport is enabled.
\* check gets the material that results, once, and is not called without any.
C12_ExtractionOrder ==
    Unbound =>
        LET header == cur.request.Authorization
            selected == IF header \notin {NULL, ""} THEN header
                        ELSE cur.request.cookie_Authorization
            token == IF AUTHZ_TOKEN_E \notin mod.authz_type THEN NULL
                     ELSE IF AUTHZ_HEADER_E \in mod.authz_type
                     THEN cur.request.X_Auth_Token
                     ELSE cur.request.cookie_X_Auth_Token
            material == IF OfScheme(selected) THEN selected ELSE token
        IN /\ Checked = IF material = NULL THEN {} ELSE {AfterSpace(material)}
           /\ Cardinality({j \in DOMAIN cur.calls : cur.calls[j][1] = "check"}) <= 1

C12_Witness ==
    /\ Unbound /\ cur.request.Authorization = "None alice:secret"
    /\ cur.request.cookie_Authorization = "Basic bob:hunter"
    /\ Checked = {}
    /\ cur.stage = "claimed"

\* C13: on a connection without identity, a request without usable
\* Authorization material: with token transport enabled its X-Auth-Token (the
\* header with header transport, else the cookie) goes to check unchanged, and
\* if check resolves it the request is accepted and the user bound; with token
\* transport disabled X-Auth-Token is not read.
C13_TokenPresentation ==
    (pc = "loaded" /\ Unbound /\ cur.request.Authorization \in {NULL, "", "None alice:secret"}
        /\ ~OfScheme(cur.request.cookie_Authorization)) =>
        LET token == IF AUTHZ_HEADER_E \in config.authz_type
                     THEN cur.request.X_Auth_Token
                     ELSE cur.request.cookie_X_Auth_Token
        IN IF AUTHZ_TOKEN_E \notin config.authz_type THEN Checked = {}
           ELSE token # NULL =>
                  /\ Checked = {token}
                  /\ \A u \in Users : Accepted(u) =>
                        /\ cur.stage = "passed" /\ cur.ret = EREJECT
                        /\ ctx[cur.conn].info # NoInfo
                        /\ ctx[cur.conn].info.user = u

\* the tokens generated on the current request
Generated == {cur.calls[i][2] : i \in {j \in DOMAIN cur.calls : cur.calls[j][1] = "generatetoken"}}

\* the values the response carries under name, as header and as cookie
HeaderValues(response, name) ==
    {response.headers[i][2] : i \in {j \in DOMAIN response.headers : response.headers[j][1] = name}}

CookieValues(response, name) ==
    {response.cookies[i][2] : i \in {j \in DOMAIN response.cookies : response.cookies[j][1] = name}}

\* the current request ended on a connection whose identity holds a token
TokenBound ==
    /\ AuthRan /\ cur.stage # "crashed"
    /\ ctx[cur.conn] # NoCtx /\ ctx[cur.conn].info # NoInfo
    /\ ctx[cur.conn].info.token # NULL

\* what C14 says of one request
TokenCarried ==
    TokenBound =>
        LET token == ctx[cur.conn].info.token
        IN /\ Generated = IF cur.info0 = NoInfo THEN {token} ELSE {}
           /\ cur.info0 # NoInfo => cur.info0.token = token
           /\ AUTHZ_HEADER_E \in mod.authz_type =>
                  HeaderValues(cur.response, str_xtoken) = {token}
           /\ (AUTHZ_HEADER_E \notin mod.authz_type /\ AUTHZ_COOKIE_E \in mod.authz_type) =>
                  CookieValues(cur.response, str_xtoken) = {token}

C15_TokenLength36 ==
    gen.pc = "return" =>
        /\ Len(gen._nonce) = 24
        /\ Len(gen.token) = 36
        /\ Len(gen.token) + 1 <= sizeof_token

\* C15 amended: the token made from 24 random bytes has 32 characters of the
\* URL-safe alphabet and fits, with its terminator, in the 36 bytes allocated.
C15_TokenLength32 ==
    gen.pc = "return" =>
        /\ Len(gen._nonce) = 24
        /\ Len(gen.token) = 32
        /\ Len(gen.token) + 1 <= 36
        /\ \A k \in 1..Len(gen.token) :
               \E n \in 1..64 :
                   SubSeq(gen.token, k, k) = SubSeq(base64url_alphabet, n, n)

C15_Witness ==
    /\ gen.pc = "return"
    /\ gen._nonce[4] = 127 /\ gen._nonce[5] = 120 /\ gen._nonce[24] = 0
    /\ Len(gen.token) = 32
    /\ SubSeq(gen.token, 1, 6) = "____f3"

\* the home connector has run on the current request
HomeRan == cur # NoCur /\ Called("_home_connector")

\* the request path begins with the home path of alice, taken without its '/'
BeginsWithHome == cur.request.uri \in {"home/alice/anything", "home/alice", "home/alice2"}

NotLoaded ==
    /\ pc = "failed" /\ mod = NoMod /\ ~registered
    /\ \A c \in DOMAIN ctx : ctx[c] = NoCtx
    /\ cur = NoCur

\* C17: when the selected store or scheme has no implementation, or the create
\* of either backend fails, mod_auth_create returns NULL, httpserver_addmod is
\* not called and no connection gets a context or a connector of the module.
C17_ConstructionFailure ==
    /\ (pc # "load"
          /\ \/ authz_rules(config.authz_store, build.AUTHZ_JWT) = NULL
             \/ authn_rules(config.authn_type) = NULL
             \/ authz.ctx = "failed"
             \/ authn.ctx = "failed") => NotLoaded
    /\ pc = "failed" => NotLoaded
    /\ (\E c \in DOMAIN ctx : ctx[c] # NoCtx) => (pc = "loaded" /\ registered)

C17_Witness ==
    /\ pc = "failed" /\ NotLoaded
    /\ config.authn_type = "Basic" /\ config.authz_store = "simple"
    /\ authz.ctx = "destroyed" /\ authn.ctx = "failed"

\* mod_auth_create is about to be called with TokenEnabled and a store that
\* exists and has no join
TokenWithoutJoin ==
    /\ pc = "load" /\ AUTHZ_TOKEN_E \in config.authz_type
    /\ authz_rules(config.authz_store, build.AUTHZ_JWT) # NULL
    /\ ~authz_join(authz_rules(config.authz_store, build.AUTHZ_JWT))

Transitions ==
    {i \in DOMAIN cur.calls : cur.calls[i][1] \in {"getpwnam", "seteuid", "setegid"}}

\* C19: a request whose material check accepts binds the identity, propagates
\* it and is passed on as accepted, whether or not the account lookup and each
\* seteuid/setegid step succeed; without AUTHZ_UNIX_E no lookup and no step is
\* made and the ids of the process stay as they were.
C19_PrivilegeFailure ==
    \A u \in Users :
        (AuthRan /\ cur.info0 = NoInfo /\ Accepted(u)) =>
            /\ cur.stage = "passed" /\ cur.ret = EREJECT /\ cur.response.status = 0
            /\ ctx[cur.conn].info # NoInfo /\ ctx[cur.conn].info.user = u
            /\ session[cur.conn] = ctx[cur.conn].info
            /\ AUTHZ_HEADER_E \in mod.authz_type =>
                   HeaderValues(cur.response, str_xuser) = {u}
            /\ AUTHZ_COOKIE_E \in mod.authz_type =>
                   CookieValues(cur.response, str_xuser) = {u}
            /\ IF AUTHZ_UNIX_E \in mod.authz_type
               THEN \E i \in Transitions : cur.calls[i][1] = "getpwnam" /\ cur.calls[i][2] = u
               ELSE Transitions = {} /\ proc.euid = "root" /\ proc.egid = "root"

C19_Witness ==
    /\ AuthRan /\ cur.info0 = NoInfo /\ Accepted("alice")
    /\ mod.authz_type = {AUTHZ_UNIX_E, AUTHZ_HEADER_E}
    /\ \E i \in Transitions : cur.calls[i] = <<"setegid", "alice", FALSE>>
    /\ \E i \in Transitions : cur.calls[i] = <<"seteuid", "alice", FALSE>>
    /\ proc.euid = "root"
    /\ ctx[cur.conn].info.user = "alice"
    /\ HeaderValues(cur.response, str_xuser) = {"alice"}

\* the names under which an identity is propagated
IdentityNames == {str_xuser, str_xgroup, str_xhome, str_xtoken, str_authorization}

\* a request on a connection where a verification failed earlier, whose
\* material check accepts, is bound
LaterBound ==
    \A u \in Users :
        (AuthRan /\ cur.conn \in rejected /\ cur.info0 = NoInfo /\ Accepted(u)) =>
            /\ cur.stage = "passed" /\ cur.ret = EREJECT
            /\ ctx[cur.conn].info # NoInfo /\ ctx[cur.conn].info.user = u

Own == ctx[cur.conn].info

\* the values the response of the current request carries under name
Carried(name) == HeaderValues(cur.response, name) \cup CookieValues(cur.response, name)

\* what C21 says of one request
Isolated ==
    AuthRan =>
        /\ (cur.info0 = NoInfo /\ cur.stage = "passed") =>
               \E u \in Users : Accepted(u) /\ Own # NoInfo /\ Own.user = u
        /\ Carried(str_xuser) \subseteq (IF Own = NoInfo THEN {} ELSE {Own.user})
        /\ Carried(str_xtoken) \subseteq (IF Own = NoInfo THEN {} ELSE {Own.token})
        /\ Carried(str_authorization) \subseteq {cur.request.Authorization}

\* C21: with the requests of two connections interleaved, a connector step on
\* one connection leaves the context and the session of the other as they
\* were; a request on a connection without identity is accepted only through
\* a check of its own material, whatever the other connection holds; and a
\* response carries no user name and no token but those of the identity of
\* its own connection.
C21_ConnectionIsolation ==
    [][/\ \A c \in TwoConns :
            (cur # NoCur /\ cur.conn = c) =>
                \A d \in TwoConns \ {c} : ctx'[d] = ctx[d] /\ session'[d] = session[d]
       /\ Isolated']_vars

C21_Witness ==
    /\ AuthRan /\ cur.conn = 2 /\ cur.info0 = NoInfo
    /\ mod.authz_type = {AUTHZ_TOKEN_E, AUTHZ_HEADER_E}
    /\ ctx[1] # NoCtx /\ ctx[1].info # NoInfo
    /\ ctx[1].info.user = "alice" /\ ctx[1].info.token = "tokenA"
    /\ cur.request.Authorization = "Basic bob:hunter"
    /\ Own.user = "bob"
    /\ Carried(str_xuser) = {"bob"} /\ Carried(str_xtoken) = {"tokenB"}

\* the path of the request matches the unprotect pattern
UnprotectedPath == config.unprotect = "pub/*" /\ cur.request.uri = "pub/info"

\* C22: an engine built with an absent or empty protect pattern has the
\* pattern "*" from then on, and every request that produces no identity and
\* whose path does not match unprotect reaches the challenge step and gets a
\* status from it.
C22_DefaultProtect ==
    /\ pc = "loaded" => config.protect = str_wilcard
    /\ (NoIdentity /\ ~UnprotectedPath) =>
           /\ Called("challenge")
           /\ cur.response.status \in {401, 403, 302, 200}

C22_Witness ==
    /\ NoIdentity /\ config.protect = "*" /\ config.unprotect = "pub/*"
    /\ cur.request.uri = "other"
    /\ cur.request.Authorization = "Basic alice:wrong"
    /\ Called("check") /\ Called("challenge")
    /\ cur.stage = "claimed" /\ cur.response.status = 401

\* C23: when the backend's challenge returns a value other than ECONTINUE the
\* connector returns that value and the response is the one the backend wrote
\* and nothing more: no status of the generic fallback, no Location and no
\* Cache-Control header, also with a redirect URL configured, on its path, and
\* for an AJAX-marked request.
C23_BackendChallengeKept ==
    \A ret \in {ESUCCESS, EREJECT} :
        (AuthRan /\ Challenged(ret)) =>
            /\ cur.ret = ret
            /\ cur.stage = IF ret = EREJECT THEN "passed" ELSE "claimed"
            /\ cur.response = authn_challenge(mod.authn_rules, EmptyResponse).response
            /\ ~HasHeaderNamed(cur.response, str_location)
            /\ ~HasHeaderNamed(cur.response, str_cachecontrol)
            /\ cur.response.status \notin {302, 403, 200}

C23_Witness ==
    /\ AuthRan /\ Challenged(ESUCCESS)
    /\ config.redirect = "http://host/login"
    /\ cur.request.uri = "private/doc"
    /\ cur.request.X_Requested_With = "XMLHttpRequest"
    /\ cur.response.status = 401
    /\ cur.response.headers = <<<<str_authenticate, "Basic realm">>>>

\* C24: a response on a connection whose identity holds a token carries no
\* Authorization header or cookie, and carries the token under X-Auth-Token
\* when a transport is configured; an Authorization value is carried only by
\* the response of the request that verified, only when the identity got no
\* token, and it is the credential that request presented.
C24_TokenReplacesCredential ==
    (AuthRan /\ cur.stage # "crashed") =>
        /\ (Own # NoInfo /\ Own.token # NULL) =>
               /\ Carried(str_authorization) = {}
               /\ ({AUTHZ_HEADER_E, AUTHZ_COOKIE_E} \cap mod.authz_type # {}) =>
                      Carried(str_xtoken) = {Own.token}
        /\ cur.info0 # NoInfo => Carried(str_authorization) = {}
        /\ Carried(str_authorization) # {} =>
               /\ cur.info0 = NoInfo /\ Own # NoInfo /\ Own.token = NULL
               /\ \E u \in Users : Accepted(u)
               /\ Carried(str_authorization) \subseteq
                      {cur.request.Authorization, cur.request.cookie_Authorization}

C24_Witness ==
    /\ AuthRan /\ cur.info0 = NoInfo
    /\ mod.authz_type = {AUTHZ_TOKEN_E, AUTHZ_COOKIE_E}
    /\ cur.request.cookie_Authorization = "Basic bob:hunter"
    /\ Own # NoInfo /\ Own.user = "bob" /\ Own.token = "tokenA"
    /\ CookieValues(cur.response, str_xtoken) = {"tokenA"}
    /\ Carried(str_authorization) = {}

\* C25: in an engine mod_auth_create returned, whenever the flag word copied
\* into the engine has AUTHZ_TOKEN_E a token generator is installed; no
\* verification calls an absent generator and the process does not crash.
C25_GeneratorInstalled ==
    /\ (pc = "loaded" /\ AUTHZ_TOKEN_E \in mod.authz_type) => mod.generatetoken # NULL
    /\ ~proc.crashed

\* every connection that holds an identity got it in a verification whose
\* privilege transition succeeded at each step, and the ids of the process
\* are those of one account
AllSwitched ==
    /\ \A d \in TwoConns :
           (ctx[d] # NoCtx /\ ctx[d].info # NoInfo) => d \in switched
    /\ proc.euid \in Users /\ proc.egid = proc.euid

\* C26: with AUTHZ_UNIX_E and every transition succeeding, while a request is
\* handled on a connection bound to user u the effective user and group of the
\* process are those of u, whatever was verified on the other connection in
\* between.
C26_PrivilegeFollowsConnection ==
    (cur # NoCur /\ AUTHZ_UNIX_E \in mod.authz_type /\ AllSwitched
        /\ cur.info0 # NoInfo) =>
        /\ proc.euid = cur.info0.user
        /\ proc.egid = cur.info0.user

\* the home connector answered the current request with its redirect
HomeRedirected ==
    \E i \in DOMAIN cur.calls : cur.calls[i] = <<"_home_connector", ESUCCESS>>

\* what C27 says of a connection and of the request running on it
Ordered ==
    /\ \A c \in Conns :
           ctx[c] # NoCtx =>
               /\ ctx[c].connectors =
                      IF AUTHZ_HOME_E \in config.authz_type
                      THEN <<"_home_connector", "_authn_connector">>
                      ELSE <<"_authn_connector">>
               /\ ctx[c].setups = IF config.authn_type = "None" THEN 1 ELSE 0
    /\ cur # NoCur =>
           /\ AUTHZ_HOME_E \notin config.authz_type => ~Called("_home_connector")
           /\ (AUTHZ_HOME_E \in config.authz_type /\ Called("_authn_connector")) =>
                  /\ cur.calls[1] = <<"_home_connector", EREJECT>>
                  /\ cur.calls[2] = <<"_authn_connector">>
           /\ cur.info0 = NoInfo =>
                  (~HomeRedirected /\ cur.response.status # 301)
           /\ HomeRedirected => cur.info0 # NoInfo

C28_NoContextOutlivesFailure ==
    pc = "failed" => authz.ctx \in {"none", "failed", "destroyed"}

\* the calls of the store's join made on the current request
Joins == {i \in DOMAIN cur.calls : cur.calls[i][1] = "join"}

\* C29: when a request attaches a token to the identity it binds, under a
\* store that is not self-describing, join was called once on that request,
\* with the user of the identity, that token and the configured expiry, it
\* succeeded, and the store holds the token for that user.
C29_TokenJoined ==
    (TokenBound /\ cur.info0 = NoInfo /\ mod.authz_rules # "jwt") =>
        /\ Cardinality(Joins) = 1
        /\ \A i \in Joins :
               cur.calls[i] = <<"join", Own.user, Own.token, config.expire, TRUE>>
        /\ <<Own.user, Own.token>> \in authz.joined

\* the invocations of the current request that returned ESUCCESS
Terminal == {i \in DOMAIN fsreq.rets : fsreq.rets[i] = ESUCCESS}

\* the JSON body of a PUT with the given result
PutBody(result, name) ==
    "{\"method\":\"PUT\",\"result\":\"" \o result \o "\",\"name\":\"" \o name \o "\"}"

\* what C30 says of a state
Streaming ==
    /\ private.fd >= 0
    /\ fds = IF private.fd > 0 THEN {private.fd} ELSE {}
    /\ private.fd > 0 =>
           /\ fsreq # NoRequest /\ fsreq.stage = "running"
           /\ fsreq.method = "PUT" /\ fsreq.name \notin {"dir/", ".hidden"}
           /\ fsreq.response = EmptyResponse
           /\ fsreq.rets # <<>> /\ \A i \in DOMAIN fsreq.rets : fsreq.rets[i] = EINCOMPLETE
    /\ fsreq # NoRequest =>
           /\ Cardinality(Terminal) <= 1
           /\ \A i \in Terminal :
                  /\ \A j \in DOMAIN fsreq.rets : j < i => fsreq.rets[j] = EINCOMPLETE
                  /\ \A j \in DOMAIN fsreq.rets : j > i => fsreq.rets[j] = EREJECT
           /\ Terminal # {} => (private = NoFile /\ fsreq.stage = "done")
           /\ \A i \in DOMAIN fsreq.calls :
                  fsreq.calls[i][1] = "httpmessage_content" =>
                      /\ i + 1 \in DOMAIN fsreq.calls
                      /\ fsreq.calls[i + 1][1] =
                             IF fsreq.calls[i][2] > 0 /\ fsreq.calls[i][3] > 0
                             THEN "write" ELSE "close"
           /\ (fsreq.method = "PUT" /\ fsreq.name = "file.txt" /\ fsreq.rets # <<>>) =>
                  /\ fsreq.calls[1][1] = "open"
                  /\ fsreq.calls[1][2] = "/srv/www/file.txt"
                  /\ IF fsreq.calls[1][3] > 0
                     THEN /\ fsreq.rets[1] = EINCOMPLETE
                          /\ Terminal # {} =>
                                 /\ fsreq.response.content = PutBody("OK", "file.txt")
                                 /\ fsreq.response.status = 0
                                 /\ fsreq.calls[Len(fsreq.calls)] = <<"close", fsreq.calls[1][3], TRUE>>
                                 /\ Cardinality({k \in DOMAIN fsreq.calls :
                                                    fsreq.calls[k][1] = "close"}) = 1
                     ELSE /\ fsreq.rets[1] = ESUCCESS
                          /\ fsreq.response.content = PutBody("KO", "file.txt")
                          /\ fsreq.response.status \in {403, 400}
                          /\ Len(fsreq.calls) = 1

NamedBody(method, name, result) ==
    "{\"method\":\"" \o method \o "\",\"name\":\"" \o name
        \o "\",\"result\":\"" \o result \o "\"}"

\* the mkdir and unlink calls of the current request
FsOperations ==
    {i \in DOMAIN fsreq.calls : fsreq.calls[i][1] \in {"mkdir", "unlink"}}

\* C31: when unlink fails on DELETE, or mkdir fails on a PUT whose name ends
\* with a slash, the JSON result is KO and the status is 403 (400 in a build
\* without 403); the result is OK only when the operation succeeded.
C31_FailuresReported ==
    fsreq # NoRequest =>
        \A i \in FsOperations :
            LET failed == fsreq.calls[i][3] # 0
                method == IF fsreq.calls[i][1] = "mkdir" THEN "PUT" ELSE "DELETE"
            IN /\ fsreq.response.content =
                      NamedBody(method, fsreq.name, IF failed THEN "KO" ELSE "OK")
               /\ failed => fsreq.response.status = result_forbidden(build.RESULT_403)

\* the current request is for a name that begins with a dot, by a method the
\* storage serves, and the connector has been called
HiddenRequest ==
    /\ fsreq # NoRequest /\ fsreq.rets # <<>>
    /\ fsreq.method \in {"PUT", "POST", "DELETE"}
    /\ fsreq.name # "" /\ SubSeq(fsreq.name, 1, 1) = "."

\* what the connector leaves of such a request, but for the status
Rejected ==
    /\ fsreq.rets[1] = ESUCCESS
    /\ \A i \in DOMAIN fsreq.rets : i > 1 => fsreq.rets[i] = EREJECT
    /\ fsreq.calls = <<>>
    /\ fds = {}
    /\ private = NoFile
    /\ fsreq.response.content = NULL

\* C32 as stated: PUT, POST and DELETE of a name that begins with a dot get
\* status 403, no open, mkdir or unlink is made, filepath and path_info are
\* cleared and the connector returns ESUCCESS.
C32_HiddenNameRejected ==
    HiddenRequest => (Rejected /\ fsreq.response.status = 403)

\* C32, amended: the same, the status being 403 in a build that defines
\* RESULT_403 and 400 in a build that does not.
C32_HiddenNameRejectedBuild ==
    HiddenRequest =>
        (Rejected /\ fsreq.response.status = IF build.RESULT_403 THEN 403 ELSE 400)

C32_Witness ==
    /\ HiddenRequest /\ fsreq.method = "DELETE" /\ fsreq.name = ".hidden"
    /\ fsreq.rets = <<ESUCCESS, EREJECT>>
    /\ ~build.RESULT_403 /\ fsreq.response.status = 400
    /\ private = NoFile

====
